---- MODULE Spec2Model ----
(***************************************************************************)
(* West-East-Power-Transmission.py: a session of the Streamlit script.  A  *)
(* run of main loads the two sources through the cache, filters to the     *)
(* date range and renders the five tabs: single river, river group, all    *)
(* rivers, ranking (with its export), line comparison.  A run is followed  *)
(* by another when a preset button calls st.rerun() or when the user runs  *)
(* the script again after a failed load.                                   *)
(*                                                                         *)
(* Encoding.  A timestamp is <<day, tod>>: a calendar day and a time of    *)
(* day (0 is midnight, 1 is any later time).  A date string 'YYYY-MM-DD'   *)
(* compared with a timestamp is that day at midnight.  A data frame is a   *)
(* sequence of records (rows, in row order).  Values are naturals; NaN and *)
(* Inf are the two special floats.  Raw water levels are even, so that the *)
(* mean of at most two same-day readings is integral.  None is <<>> and a  *)
(* returned dict d is <<d>>.                                                *)
(***************************************************************************)
EXTENDS Integers, Sequences, FiniteSets, TLC

\* the sample floor of calculate_correlation and of every view
MinSamples == 10

\* the days the sources hold readings for
MaxDay == 12

Days == 1..MaxDay

\* missing value (NULL in the database, empty cell in the spreadsheet)
NaN == 0 - 1

\* a non-finite float
Inf == 0 - 2

None == <<>>

IsNum(v) == v >= 0

----------------------------------------------------------------------------
(* Sequences and small arithmetic *)

Range(s) == {s[i] : i \in DOMAIN s}

\* a sequence given as a function, as the tuple of its elements
Tuple(f) == f \o <<>>

RECURSIVE SumSeq(_)
SumSeq(s) == IF s = <<>> THEN 0 ELSE Head(s) + SumSeq(Tail(s))

Min2(a, b) == IF a <= b THEN a ELSE b

RECURSIVE Concat(_)
Concat(ss) == IF ss = <<>> THEN <<>> ELSE Head(ss) \o Concat(Tail(ss))

RECURSIVE SortedSeq(_)
\* the elements of a finite set of integers, ascending
SortedSeq(S) ==
    IF S = {} THEN <<>>
    ELSE LET m == CHOOSE x \in S : \A y \in S : x <= y
         IN  <<m>> \o SortedSeq(S \ {m})

\* the river names the database can hold, in the order sorted() gives them
RiverNames == <<"r1", "r2", "r3">>

\* sorted(...) of a set of river names
SortedNames(S) == SelectSeq(RiverNames, LAMBDA r : r \in S)

\* a/b < c/d for a, c >= 0 and b, d > 0, without multiplying (continued fractions)
RECURSIVE FracLess(_, _, _, _)
FracLess(a, b, c, d) ==
    IF a \div b # c \div d THEN a \div b < c \div d
    ELSE IF c % d = 0 THEN FALSE
    ELSE IF a % b = 0 THEN TRUE
    ELSE FracLess(d, c % d, b, a % b)

----------------------------------------------------------------------------
(* Float arithmetic on the values the frames hold *)

\* sum of floats none of which is NaN: Inf absorbs
FloatSum(vals) ==
    IF \E i \in DOMAIN vals : vals[i] = Inf THEN Inf ELSE SumSeq(vals)

\* pandas groupby 'sum': NaN is skipped, and a group of only NaN sums to 0
AggSum(vals) == FloatSum(SelectSeq(vals, IsNum) \o
                         SelectSeq(vals, LAMBDA v : v = Inf))

\* pandas groupby 'mean' (the rows hold no NaN: dropna ran before)
AggMean(vals) ==
    IF \E i \in DOMAIN vals : vals[i] = Inf THEN Inf
    ELSE SumSeq(vals) \div Len(vals)

----------------------------------------------------------------------------
(* Timestamps and the pandas operations the script uses *)

\* a timestamp compared with a date string: the string is that day at midnight
TimeGE(t, date) == t[1] >= date

TimeLE(t, date) == t[1] < date \/ (t[1] = date /\ t[2] = 0)

\* df.groupby('date').agg({col: agg}).reset_index(): one row per distinct date,
\* dates ascending, each the reduction of that date's values in row order
WaterVals(rows, d) ==
    LET day == SelectSeq(rows, LAMBDA r : r.date = d)
    IN  Tuple([i \in DOMAIN day |-> day[i].water_level])

\* a reduction that takes the first reading of each date
GroupFirst(rows) ==
    LET dates == SortedSeq({rows[i].date : i \in DOMAIN rows})
    IN  Tuple([k \in DOMAIN dates |->
            [date |-> dates[k], water_level |-> WaterVals(rows, dates[k])[1]]])

GroupMean(rows) ==
    LET dates == SortedSeq({rows[i].date : i \in DOMAIN rows})
    IN  Tuple([k \in DOMAIN dates |->
            [date |-> dates[k], water_level |-> AggMean(WaterVals(rows, dates[k]))]])

GroupSum(rows) ==
    LET dates == SortedSeq({rows[i].date : i \in DOMAIN rows})
    IN  Tuple([k \in DOMAIN dates |->
            [date |-> dates[k], water_level |-> AggSum(WaterVals(rows, dates[k]))]])

\* df[df['river_name'] == river] and df[df['river_name'].isin(rivers)]
OfRivers(df_water, rivers) == SelectSeq(df_water, LAMBDA r : r.river_name \in rivers)

\* a join on the row position instead of on the date
MergeOnIndex(left, right) ==
    Tuple([i \in 1..Min2(Len(left), Len(right)) |->
              [date |-> left[i].date, power_sum |-> left[i].power_sum,
               water_level |-> right[i].water_level]])

\* pd.merge(left, right, on='date', how='inner'): every pair of a left row and a
\* right row of the same date, in the order of the left rows
RECURSIVE Merge(_, _)
Merge(left, right) ==
    IF left = <<>> THEN <<>>
    ELSE LET l == Head(left)
             m == SelectSeq(right, LAMBDA r : r.date = l.date)
         IN  Tuple([i \in DOMAIN m |-> [date |-> l.date, power_sum |-> l.power_sum,
                                        water_level |-> m[i].water_level]])
             \o Merge(Tail(left), right)

\* df_merged.dropna()
DropNa(df) == SelectSeq(df, LAMBDA r : r.power_sum # NaN /\ r.water_level # NaN)

MergeDropNa(left, right) == DropNa(Merge(left, right))

Column(df, col) == Tuple([i \in DOMAIN df |-> df[i][col]])

----------------------------------------------------------------------------
(* calculate_correlation *)

Products(x, y) == Tuple([i \in DOMAIN x |-> x[i] * y[i]])

\* n * sum(x*y) - sum(x) * sum(y): n^2 times the covariance
Cov(x, y) == Len(x) * SumSeq(Products(x, y)) - SumSeq(x) * SumSeq(y)

Sign(v) == IF v > 0 THEN 1 ELSE IF v < 0 THEN 0 - 1 ELSE 0

\* the correlation coefficient whose value is undefined (a constant input)
NaNCoef == [sgn |-> 0, num |-> 0, den |-> 0]

IsNaNCoef(r) == r.den = 0

\* scipy.stats.pearsonr: r = cov(x,y) / sqrt(var(x) var(y)), kept as its sign and
\* r^2 = num/den; a constant input gives NaN (with a warning, which the script
\* ignores), never an exception
pearsonr(x, y) ==
    IF Cov(x, x) = 0 \/ Cov(y, y) = 0 THEN NaNCoef
    ELSE [sgn |-> Sign(Cov(x, y)), num |-> Cov(x, y) * Cov(x, y),
          den |-> Cov(x, x) * Cov(y, y)]

\* LinearRegression().fit(x, y).score(x, y): r^2 of the fit; a constant x fits the
\* mean of y (score 0), and a constant y is fitted exactly (score 1)
Score(x, y) ==
    IF Cov(y, y) = 0 THEN [num |-> 1, den |-> 1]
    ELSE IF Cov(x, x) = 0 THEN [num |-> 0, den |-> 1]
    ELSE [num |-> Cov(x, y) * Cov(x, y), den |-> Cov(x, x) * Cov(y, y)]

\* model.coef_[0]: cov(x,y) / var(x), and 0 for a constant x
Slope(x, y) ==
    IF Cov(x, x) = 0 THEN [num |-> 0, den |-> 1]
    ELSE [num |-> Cov(x, y), den |-> Cov(x, x)]

\* the numeric routines raise on a non-finite input (ValueError)
Raises(x, y) == \E i \in DOMAIN x : x[i] = Inf \/ y[i] = Inf

\* the floor off by one
calculate_correlation_below(water_values, power_values) ==
    IF Len(water_values) < MinSamples - 1 THEN None
    ELSE IF Raises(water_values, power_values) THEN None
    ELSE << [pearson_r |-> pearsonr(water_values, power_values),
             r2 |-> Score(water_values, power_values),
             slope |-> Slope(water_values, power_values),
             n |-> Len(water_values)] >>

\* the dict also holds pearson_p, spearman_r, spearman_p and intercept, which the
\* same calls give and on which nothing in the script branches
calculate_correlation(water_values, power_values) ==
    IF Len(water_values) < MinSamples THEN None
    ELSE IF Raises(water_values, power_values) THEN None
    ELSE << [pearson_r |-> pearsonr(water_values, power_values),
             r2 |-> Score(water_values, power_values),
             slope |-> Slope(water_values, power_values),
             n |-> Len(water_values)] >>

\* stats of a merged frame, as every view calls it
StatsOf(df_merged) ==
    calculate_correlation(Column(df_merged, "water_level"), Column(df_merged, "power_sum"))

----------------------------------------------------------------------------
(* sort_values('Pearson_r', key=abs, ascending=False) *)

\* |a| < |b| as floats: every comparison with NaN is false
AbsLess(a, b) ==
    /\ ~IsNaNCoef(a)
    /\ ~IsNaNCoef(b)
    /\ FracLess(a.num, a.den, b.num, b.den)

\* |a| >= |b| as floats
AbsGE(a, b) ==
    /\ ~IsNaNCoef(a)
    /\ ~IsNaNCoef(b)
    /\ ~FracLess(a.num, a.den, b.num, b.den)

\* row goes before the first row with a smaller key; NaN keys go last
RECURSIVE InsertDesc(_, _)
InsertDesc(sorted, row) ==
    IF sorted = <<>> THEN <<row>>
    ELSE IF \/ AbsLess(Head(sorted).Pearson_r, row.Pearson_r)
            \/ (IsNaNCoef(Head(sorted).Pearson_r) /\ ~IsNaNCoef(row.Pearson_r))
         THEN <<row>> \o sorted
         ELSE <<Head(sorted)>> \o InsertDesc(Tail(sorted), row)

RECURSIVE SortByAbsDesc(_)
SortByAbsDesc(rows) ==
    IF rows = <<>> THEN <<>>
    ELSE InsertDesc(SortByAbsDesc(SubSeq(rows, 1, Len(rows) - 1)), rows[Len(rows)])

\* df_results.insert(0, 'rank', range(1, len(df_results) + 1))
WithRank(rows) ==
    [i \in DOMAIN rows |-> [rank |-> i, name |-> rows[i].name, n |-> rows[i].n,
                            Pearson_r |-> rows[i].Pearson_r, r2 |-> rows[i].r2,
                            slope |-> rows[i].slope,
                            first |-> rows[i].first, last |-> rows[i].last]]

----------------------------------------------------------------------------
(* df_results.to_csv(index=False): the table as delimited text.  A text is a    *)
(* sequence of characters.  A float is kept to FloatBits binary places: its     *)
(* mantissa m stands for m / 2^FloatBits.                                       *)

\* the binary places of a float
FloatBits == 14

RECURSIVE Pow(_, _)
Pow(b, k) == IF k = 0 THEN 1 ELSE b * Pow(b, k - 1)

FloatOne == Pow(2, FloatBits)

\* x / y rounded to the nearest integer, for x >= 0 and an even y > 0
RoundDiv(x, y) == (x + y \div 2) \div y

\* floor(n * 2^k / d) by long division, for n >= 0 and d > 0
RECURSIVE ScaledDiv(_, _, _)
ScaledDiv(n, d, k) ==
    IF k = 0 THEN n \div d
    ELSE (n \div d) * Pow(2, k) + ScaledDiv(2 * (n % d), d, k - 1)

Abs(v) == IF v < 0 THEN 0 - v ELSE v

NaNFloat == [nan |-> TRUE, m |-> 0]

\* the float nearest to the quotient num / den (den > 0)
FloatOfQuotient(num, den) ==
    [nan |-> FALSE,
     m   |-> Sign(num) * ((ScaledDiv(Abs(num), den, FloatBits + 1) + 1) \div 2)]

\* the largest mantissa m with (m - 1/2)^2 <= num / den, from bit downwards:
\* the float nearest to sqrt(num / den), for 0 <= num <= den
RECURSIVE SqrtMantissa(_, _, _, _)
SqrtMantissa(num, den, m, bit) ==
    IF bit < 0 THEN m
    ELSE LET c == m + Pow(2, bit)
         IN  IF \/ c > FloatOne
                \/ FracLess(num, den, (2 * c - 1) * (2 * c - 1), 4 * FloatOne * FloatOne)
             THEN SqrtMantissa(num, den, m, bit - 1)
             ELSE SqrtMantissa(num, den, c, bit - 1)

\* the float a correlation coefficient is: sgn * sqrt(num / den), or NaN
FloatOfCoef(r) ==
    IF IsNaNCoef(r) THEN NaNFloat
    ELSE [nan |-> FALSE, m |-> r.sgn * SqrtMantissa(r.num, r.den, 0, FloatBits)]

DigitChars == <<"0", "1", "2", "3", "4", "5", "6", "7", "8", "9">>

\* str(n) for an integer n >= 0
RECURSIVE Digits(_)
Digits(n) ==
    IF n < 10 THEN <<DigitChars[n + 1]>>
    ELSE Digits(n \div 10) \o <<DigitChars[(n % 10) + 1]>>

\* the last k decimal digits of n, with leading zeros
RECURSIVE LastDigits(_, _)
LastDigits(n, k) ==
    IF k = 0 THEN <<>> ELSE LastDigits(n \div 10, k - 1) \o <<DigitChars[(n % 10) + 1]>>

\* a / 2^FloatBits in units of 10^-d, rounded to the nearest
ToDecimal(a, d) ==
    (a \div FloatOne) * Pow(10, d) + RoundDiv((a % FloatOne) * Pow(10, d), FloatOne)

\* n / 10^d in units of 2^-FloatBits, rounded to the nearest: the float a decimal reads as
FromDecimal(n, d) ==
    (n \div Pow(10, d)) * FloatOne + RoundDiv((n % Pow(10, d)) * FloatOne, Pow(10, d))

\* repr(float): the fewest decimals, at least one, that read back as the same float
RECURSIVE ShortestDecimals(_, _)
ShortestDecimals(a, d) ==
    IF FromDecimal(ToDecimal(a, d), d) = a THEN d ELSE ShortestDecimals(a, d + 1)

\* the decimals of the display format '{:.4f}'
DisplayDecimals == 4

\* the float formatted as the table on the page shows it
FloatTextDisplayed(f) ==
    IF f.nan THEN <<"n", "a", "n">>
    ELSE (IF f.m < 0 THEN <<"-">> ELSE <<>>)
         \o Digits(ToDecimal(Abs(f.m), DisplayDecimals) \div Pow(10, DisplayDecimals))
         \o <<".">>
         \o LastDigits(ToDecimal(Abs(f.m), DisplayDecimals), DisplayDecimals)

\* a float cell of to_csv: repr of the float, and the empty text for NaN (na_rep='')
FloatText(f) ==
    IF f.nan THEN <<>>
    ELSE LET d == ShortestDecimals(Abs(f.m), 1)
         IN  (IF f.m < 0 THEN <<"-">> ELSE <<>>)
             \o Digits(ToDecimal(Abs(f.m), d) \div Pow(10, d))
             \o <<".">>
             \o LastDigits(ToDecimal(Abs(f.m), d), d)

\* the text of the river names the database holds: one of them holds the
\* delimiter and one the quote character
NameText == [r1 |-> <<"r", "1">>, r2 |-> <<"r", ",", "2">>, r3 |-> <<"r", "\"", "3">>]

\* strftime('%Y-%m-%d') of a day
DateText(d) == <<"d", "-">> \o LastDigits(d, 2)

\* csv.QUOTE_MINIMAL: a cell with the delimiter, the quote character or a line
\* break is written in quotes, its quote characters doubled
NeedsQuote(cell) == \E i \in DOMAIN cell : cell[i] \in {",", "\"", "\n", "\r"}

RECURSIVE DoubleQuotes(_)
DoubleQuotes(cell) ==
    IF cell = <<>> THEN <<>>
    ELSE (IF Head(cell) = "\"" THEN <<"\"", "\"">> ELSE <<Head(cell)>>)
         \o DoubleQuotes(Tail(cell))

Cell(cell) ==
    IF NeedsQuote(cell) THEN <<"\"">> \o DoubleQuotes(cell) \o <<"\"">> ELSE cell

\* the cells of a line joined by the delimiter, and the line break
RECURSIVE Line(_)
Line(cells) ==
    CASE cells = <<>>    -> <<"\n">>
      [] Len(cells) = 1  -> Cell(cells[1]) \o <<"\n">>
      [] OTHER           -> Cell(Head(cells)) \o <<",">> \o Line(Tail(cells))

\* the column names, one symbol each
Header == << <<"rank">>, <<"name">>, <<"n">>, <<"Pearson_r">>, <<"R2">>, <<"slope">>,
             <<"first">>, <<"last">> >>

RowCells(row) ==
    << Digits(row.rank), NameText[row.name], Digits(row.n),
       FloatText(FloatOfCoef(row.Pearson_r)),
       FloatText(FloatOfQuotient(row.r2.num, row.r2.den)),
       FloatText(FloatOfQuotient(row.slope.num, row.slope.den)),
       DateText(row.first), DateText(row.last) >>

\* df_results.to_csv(index=False): the header line and one line per row
to_csv(rows) ==
    Line(Header) \o Concat([i \in DOMAIN rows |-> Line(RowCells(rows[i]))])

----------------------------------------------------------------------------
(* Reading the delimited text back: the lines outside quotes, their cells, and  *)
(* the typed columns of the ranked table *)

\* position i of the text is outside quotes: an even number of quote characters
\* comes before it
Outside(text, i) == Cardinality({j \in 1..(i - 1) : text[j] = "\""}) % 2 = 0

\* the pieces of a text between the separators sep that are outside quotes
Split(text, sep) ==
    LET at   == SortedSeq({i \in DOMAIN text : text[i] = sep /\ Outside(text, i)})
        from == [k \in 1..(Len(at) + 1) |-> IF k = 1 THEN 1 ELSE at[k - 1] + 1]
        to   == [k \in 1..(Len(at) + 1) |-> IF k > Len(at) THEN Len(text) ELSE at[k] - 1]
    IN  Tuple([k \in 1..(Len(at) + 1) |-> SubSeq(text, from[k], to[k])])

RECURSIVE Undouble(_)
Undouble(cell) ==
    IF cell = <<>> THEN <<>>
    ELSE IF Head(cell) = "\"" /\ Len(cell) > 1 /\ cell[2] = "\""
         THEN <<"\"">> \o Undouble(Tail(Tail(cell)))
         ELSE <<Head(cell)>> \o Undouble(Tail(cell))

\* a cell without its quotes
Unquote(cell) ==
    IF cell # <<>> /\ cell[1] = "\""
    THEN Undouble(SubSeq(cell, 2, Len(cell) - 1)) ELSE cell

\* the lines of a text (each ends with a line break), each the sequence of its cells
Lines(text) ==
    LET ls == Split(text, "\n")
    IN  Tuple([i \in 1..(Len(ls) - 1) |->
            LET cs == Split(ls[i], ",")
            IN  Tuple([k \in DOMAIN cs |-> Unquote(cs[k])])])

IsDigit(c) == c \in Range(DigitChars)

DigitValue(c) == CHOOSE k \in 0..9 : DigitChars[k + 1] = c

\* the integer a text of digits denotes
RECURSIVE ParseInt(_)
ParseInt(cell) ==
    IF cell = <<>> THEN 0
    ELSE 10 * ParseInt(SubSeq(cell, 1, Len(cell) - 1)) + DigitValue(cell[Len(cell)])

\* the float a cell denotes: the float nearest to its decimal, and NaN for an
\* empty cell or a cell that is no decimal
ParseFloat(cell) ==
    LET neg  == cell # <<>> /\ cell[1] = "-"
        body == IF neg THEN Tail(cell) ELSE cell
        dots == {i \in DOMAIN body : body[i] = "."}
    IN  IF Cardinality(dots) # 1 \/ \E i \in DOMAIN body \ dots : ~IsDigit(body[i])
        THEN NaNFloat
        ELSE LET dot  == CHOOSE i \in dots : TRUE
                 frac == SubSeq(body, dot + 1, Len(body))
                 n    == ParseInt(SubSeq(body, 1, dot - 1) \o frac)
             IN  [nan |-> FALSE,
                  m   |-> (IF neg THEN 0 - 1 ELSE 1) * FromDecimal(n, Len(frac))]

\* the rows of the ranked table read back from its text, the header line skipped
ReadCsv(text) ==
    LET lines == Tail(Lines(text))
    IN  [i \in DOMAIN lines |->
            [rank |-> ParseInt(lines[i][1]), name |-> lines[i][2],
             n |-> ParseInt(lines[i][3]), Pearson_r |-> ParseFloat(lines[i][4]),
             r2 |-> ParseFloat(lines[i][5]), slope |-> ParseFloat(lines[i][6])]]

----------------------------------------------------------------------------
(* The two sources: what the database table and the spreadsheets can hold *)

\* DC_CONFIG.keys(), in insertion order
DC_CONFIG == <<"dc1", "dc2">>

DCNames == Range(DC_CONFIG)

\* the water levels (even, in half metres) one river reports on day d, in time order
WaterReadings(shape, d) ==
    CASE shape = "up"     -> << 2 * (d % 4) >>
      [] shape = "down"   -> << 6 - 2 * (d % 4) >>
      [] shape = "zig"    -> << 2 * (d % 3) >>
      [] shape = "const"  -> << 4 >>
      [] shape = "double" -> << 2 * (d % 4), 2 * ((d + 1) % 3) >>
      [] shape = "inf"    -> << IF d = 3 THEN Inf ELSE 2 * (d % 4) >>
      [] shape = "nulls"  -> << IF d \in {2, 5} THEN NaN ELSE 2 * (d % 3) >>
      [] shape = "short"  -> IF d < MinSamples THEN << 2 * (d % 4) >> ELSE <<>>
      [] OTHER            -> <<>>

\* the power readings one line's spreadsheet holds for day d, in time order
PowerReadings(shape, d) ==
    CASE shape = "hourly"  -> << d % 4, 1 >>
      [] shape = "daily"   -> << d % 4 >>
      [] shape = "gaps"    -> IF d \in {2, 4, 6} THEN <<>> ELSE << d % 4 >>
      [] shape = "blank"   -> IF d = 3 THEN << NaN, NaN >>
                              ELSE IF d = 5 THEN << NaN, 2 >> ELSE << d % 4, 1 >>
      [] shape = "late"    -> IF d >= MinSamples THEN << d % 4 >> ELSE <<>>
      [] shape = "spike"   -> << IF d = 3 THEN Inf ELSE d % 4 >>
      [] OTHER             -> <<>>

\* a spreadsheet that cannot be read
Unreadable == "unreadable"

\* the rows of water_rain_river for the Yunnan region, day by day, river by river
RiverRows(shapes) ==
    Concat([d \in Days |->
        Concat([k \in DOMAIN RiverNames |->
            LET vs == WaterReadings(shapes[RiverNames[k]], d)
            IN  [t \in DOMAIN vs |-> [time |-> <<d, t - 1>>,
                                      river_name |-> RiverNames[k],
                                      water_level |-> vs[t]]]])])

Reverse(s) == [i \in DOMAIN s |-> s[Len(s) + 1 - i]]

\* the spreadsheets whose rows are listed newest day first
NewestFirst == {"daily"}

\* the rows of one line's spreadsheet: date and time of day joined, power column renamed
PowerRows(shape) ==
    LET rows == Concat([d \in Days |->
                    LET vs == PowerReadings(shape, d)
                    IN  [t \in DOMAIN vs |->
                            [datetime |-> <<d, t - 1>>, power_actual |-> vs[t]]]])
    IN  IF shape \in NewestFirst THEN Tuple(Reverse(rows)) ELSE rows

WaterShapes ==
    [r1 : {"up", "const", "double"}, r2 : {"down", "inf", "nulls"}, r3 : {"zig", "short"}]
    \cup {[r1 |-> "short", r2 |-> "none", r3 |-> "short"]}

PowerShapes ==
    [dc1 : {"hourly", "blank", "late", Unreadable},
     dc2 : {"daily", "gaps", "spike", Unreadable}]

\* what the table holds while the database cannot be reached
DownShapes == [r1 |-> "up", r2 |-> "down", r3 |-> "zig"]

\* what a spreadsheet holds while it cannot be read
DownShape == [dc1 |-> "hourly", dc2 |-> "daily"]

\* the date ranges the sidebar can be set to: <<start_date, end_date>>
DateRanges == {<<1, MaxDay>>, <<3, MaxDay>>, <<1, MinSamples - 1>>, <<MaxDay, 1>>}

----------------------------------------------------------------------------
(* The loaders and process_water_data *)

PowerVals(rows, d) ==
    LET day == SelectSeq(rows, LAMBDA r : r.datetime[1] = d)
    IN  Tuple([i \in DOMAIN day |-> day[i].power_actual])

\* the dates of the rows in the order of their first appearance
RECURSIVE FirstSeen(_)
FirstSeen(rows) ==
    IF rows = <<>> THEN <<>>
    ELSE LET d == Head(rows).datetime[1]
         IN  <<d>> \o FirstSeen(SelectSeq(Tail(rows), LAMBDA r : r.datetime[1] # d))

\* a groupby that keeps the groups in the order of their first appearance (sort=False)
PowerDailyUnsorted(rows) ==
    LET dates == FirstSeen(rows)
        daily == Tuple([k \in DOMAIN dates |->
                     [date |-> dates[k], power_sum |-> AggSum(PowerVals(rows, dates[k]))]])
    IN  SelectSeq(daily, LAMBDA r : r.power_sum # NaN)

\* load_power_data after read_excel: the daily sum per date, rows with a NaN sum dropped
PowerDaily(rows) ==
    LET dates == SortedSeq({rows[i].datetime[1] : i \in DOMAIN rows})
        daily == Tuple([k \in DOMAIN dates |->
                     [date |-> dates[k], power_sum |-> AggSum(PowerVals(rows, dates[k]))]])
    IN  SelectSeq(daily, LAMBDA r : r.power_sum # NaN)

\* sort_values(by=['river_name', 'time'])
SortWater(rows) ==
    Concat([k \in DOMAIN RiverNames |->
        Concat([d \in Days |->
            Concat([t \in 1..2 |->
                SelectSeq(rows, LAMBDA r : /\ r.river_name = RiverNames[k]
                                           /\ r.time = <<d, t - 1>>)])])])

\* the rows process_water_data keeps: time within [start_date, end_date]
InRange(r, start, end) == TimeGE(r.time, start) /\ TimeLE(r.time, end)

process_water_data(df, start, end) ==
    LET kept  == SelectSeq(df, LAMBDA r : InRange(r, start, end))
        valid == SelectSeq(kept, LAMBDA r : r.water_level # NaN)
        dated == Tuple([i \in DOMAIN valid |->
                     [time |-> valid[i].time, river_name |-> valid[i].river_name,
                      water_level |-> valid[i].water_level, date |-> valid[i].time[1]]])
    IN  SortWater(dated)

\* df_power[(df_power['date'] >= start_date) & (df_power['date'] <= end_date)]
FilterPower(df, start, end) ==
    SelectSeq(df, LAMBDA r : TimeGE(<<r.date, 0>>, start) /\ TimeLE(<<r.date, 0>>, end))

----------------------------------------------------------------------------
(* The state of one run of the script *)

VARIABLES
    riverTable,          \* the rows of water_rain_river (Yunnan)
    dbUp,                \* whether the database can be reached
    powerFile,           \* line -> the rows of its spreadsheet
    fileUp,              \* the lines whose spreadsheet can be read
    pc,                  \* where the run is
    selected_dc, start_date, end_date,
    df_river, df_power,  \* what the loaders returned: None or <<frame>>
    errors,              \* what st.error has reported
    df_water, df_power_filtered, all_rivers,
    view,                \* the align-and-correlate step of the view rendered last
    idx,                 \* the loop index of the ranking or comparison loop
    processed,           \* the entities the running batch loop has handled, in order
    correlation_results, df_results,
    csv,                 \* the text handed to the download button
    compare_dcs, compare_rivers, all_power_data, df_water_sum,
    comparison_results, df_comparison,
    cache,               \* st.cache_data: key -> <<>> or <<the entry>>
    now,                 \* the clock of the cache, in seconds
    contacts,            \* key -> how often its source has been contacted
    runs,                \* the script runs of the session, the current one included
    session_state        \* st.session_state: key -> <<>> or <<the value>>

sources == <<riverTable, dbUp, powerFile, fileUp>>

request == <<selected_dc, start_date, end_date, df_river, df_power,
             df_water, df_power_filtered, all_rivers>>

ranking == <<correlation_results, df_results, csv>>

comparison == <<compare_dcs, compare_rivers, all_power_data, df_water_sum,
                comparison_results, df_comparison>>

session == <<cache, now, contacts, runs, session_state>>

vars == <<sources, request, errors, pc, view, idx, processed, ranking, comparison,
          session>>

\* the body of load_river_data: the table, or None when the database cannot be reached
read_river == IF dbUp THEN <<riverTable>> ELSE None

\* the body of load_power_data: the daily frame, or None when the file cannot be read
read_power(dc_name) ==
    IF dc_name \in fileUp THEN <<PowerDaily(powerFile[dc_name])>> ELSE None

\* the lifetime of a cache entry, in seconds
TTL == 3600

\* the keys of the cache: load_river_data(), and load_power_data(dc) for each line
CacheKeys == {"river"} \cup DCNames

Body(key) == IF key = "river" THEN read_river ELSE read_power(key)

\* the cache holds an entry for the key that has not expired
Hit(key) == cache[key] # <<>> /\ now < cache[key][1].stored + TTL

\* a call of a cached loader: the entry's value on a hit, else what the body returns
Cached(key) == IF Hit(key) THEN cache[key][1].value ELSE Body(key)

load_river_data == Cached("river")

load_power_data(dc_name) == Cached(dc_name)

\* a cache that keeps no entry for a load that returned None
StoredUnlessNone(keys) ==
    [k \in CacheKeys |->
        IF k \in keys /\ ~Hit(k)
        THEN (IF Body(k) = None THEN <<>> ELSE <<[value |-> Body(k), stored |-> now]>>)
        ELSE cache[k]]

\* the cache after calls for the keys: whatever the body returned is stored, on a miss
Stored(keys) ==
    [k \in CacheKeys |->
        IF k \in keys /\ ~Hit(k) THEN <<[value |-> Body(k), stored |-> now]>>
        ELSE cache[k]]

\* the contacts after calls for the keys: the body runs on a miss only
Contacted(keys) ==
    [k \in CacheKeys |-> IF k \in keys /\ ~Hit(k) THEN contacts[k] + 1 ELSE contacts[k]]

\* the script runs a session is followed for
MaxRuns == 2

\* the seconds that pass at a time between two runs
TickSeconds == 1800

MaxTime == TTL

\* the widgets of the tabs in a run after the first: the value the session holds for
\* their key, and their default when it holds none
Unset == <<>>

NoSession == [tab1_river |-> Unset, tab2_rivers |-> Unset, selected_rivers_tab2 |-> Unset]

\* default=all_rivers[:k] if len(all_rivers) >= k else all_rivers
DefaultRivers(k) ==
    IF Len(all_rivers) >= k THEN Range(SubSeq(all_rivers, 1, k)) ELSE Range(all_rivers)

\* st.selectbox(options=all_rivers, index=0, key="tab1_river")
Tab1Rivers ==
    IF runs = 1 THEN Range(all_rivers)
    ELSE IF session_state.tab1_river # Unset /\ session_state.tab1_river[1] \in Range(all_rivers)
         THEN {session_state.tab1_river[1]}
         ELSE {all_rivers[i] : i \in {1} \cap DOMAIN all_rivers}

\* st.multiselect(options=all_rivers, default=all_rivers[:5], key="tab2_rivers")
Tab2Rivers ==
    IF runs = 1 THEN SUBSET Range(all_rivers)
    ELSE IF session_state.tab2_rivers # Unset
         THEN {session_state.tab2_rivers[1] \cap Range(all_rivers)}
         ELSE {DefaultRivers(5)}

\* the preset river groups of Tab 2
lancang_rivers == <<"r3", "r1", "r5">>

nanpan_rivers == <<"r2", "r6">>

Presets == {"lancang", "nanpan", "all"}

PresetList(preset) ==
    CASE preset = "lancang" -> SelectSeq(lancang_rivers, LAMBDA r : r \in Range(all_rivers))
      [] preset = "nanpan"  -> SelectSeq(nanpan_rivers, LAMBDA r : r \in Range(all_rivers))
      [] OTHER              -> all_rivers

\* a view that correlates whatever the merge gave
AlignStepUnguarded(entity, power, daily) ==
    LET df_merged == MergeDropNa(power, daily)
    IN  [entity |-> entity, power |-> power, daily |-> daily, merged |-> df_merged,
         called |-> TRUE, stats |-> StatsOf(df_merged)]

\* merge the power side with the water side and, from MinSamples rows on, correlate
AlignStep(entity, power, daily) ==
    LET df_merged == MergeDropNa(power, daily)
        called    == Len(df_merged) >= MinSamples
    IN  [entity |-> entity, power |-> power, daily |-> daily, merged |-> df_merged,
         called |-> called,
         stats  |-> IF called THEN StatsOf(df_merged) ELSE None]

\* a view of one aligned pair (tabs 1 to 3): the metrics read stats['pearson_r'] and
\* so on without a test, a TypeError when stats is None; below the floor the view
\* shows elseShown
SingleView(tab, rivers, daily, elseShown) ==
    LET step == AlignStep(rivers, df_power_filtered, daily)
    IN  [tab |-> tab, step |-> step,
         shown |-> IF step.called
                   THEN (IF step.stats = None THEN "fault" ELSE "stats")
                   ELSE elseShown]

\* a view that aligned nothing
NoView(tab, shown) ==
    [tab |-> tab,
     step |-> [entity |-> {}, power |-> <<>>, daily |-> <<>>, merged |-> <<>>,
               called |-> FALSE, stats |-> None],
     shown |-> shown]

AfterView(v, next) == IF v.shown = "fault" THEN "fault" ELSE next

Init ==
    /\ \/ /\ dbUp = TRUE
          /\ \E shapes \in WaterShapes : riverTable = RiverRows(shapes)
       \/ /\ dbUp = FALSE
          /\ riverTable = RiverRows(DownShapes)
    /\ \E shapes \in PowerShapes :
          /\ powerFile = [dc \in DCNames |->
                            PowerRows(IF shapes[dc] = Unreadable THEN DownShape[dc]
                                      ELSE shapes[dc])]
          /\ fileUp = {dc \in DCNames : shapes[dc] # Unreadable}
    /\ pc = "start"
    /\ selected_dc = DC_CONFIG[1]
    /\ start_date = 1
    /\ end_date = MaxDay
    /\ df_river = None
    /\ df_power = None
    /\ errors = {}
    /\ df_water = <<>>
    /\ df_power_filtered = <<>>
    /\ all_rivers = <<>>
    /\ view = NoView(0, "none")
    /\ idx = 0
    /\ processed = <<>>
    /\ correlation_results = <<>>
    /\ df_results = <<>>
    /\ csv = <<>>
    /\ compare_dcs = <<>>
    /\ compare_rivers = {}
    /\ all_power_data = <<>>
    /\ df_water_sum = <<>>
    /\ comparison_results = <<>>
    /\ df_comparison = <<>>
    /\ cache = [k \in CacheKeys |-> <<>>]
    /\ now = 0
    /\ contacts = [k \in CacheKeys |-> 0]
    /\ runs = 1
    /\ session_state = NoSession

\* main up to the tabs: the sidebar, the two loads, the abort on a failed load, the
\* date filters and the river list
Load ==
    /\ pc = "start"
    /\ \E dc \in (IF runs = 1 THEN DCNames ELSE {selected_dc}),
          range \in (IF runs = 1 THEN DateRanges ELSE {<<start_date, end_date>>}) :
        LET river == load_river_data
            power == load_power_data(dc)
            failed == river = None \/ power = None
            water == IF failed THEN <<>>
                     ELSE process_water_data(river[1], range[1], range[2])
        IN  /\ selected_dc' = dc
            /\ start_date' = range[1]
            /\ end_date' = range[2]
            /\ df_river' = river
            /\ df_power' = power
            /\ errors' = errors \cup (IF river = None THEN {"db"} ELSE {})
                                \cup (IF power = None THEN {dc} ELSE {})
                                \cup (IF failed THEN {"load"} ELSE {})
            /\ df_water' = water
            /\ df_power_filtered' =
                   IF failed THEN <<>> ELSE FilterPower(power[1], range[1], range[2])
            /\ all_rivers' = SortedNames({df_water'[i].river_name : i \in DOMAIN df_water'})
            /\ pc' = IF failed THEN "failed" ELSE "tab1"
            /\ cache' = Stored({"river", dc})
            /\ contacts' = Contacted({"river", dc})
    /\ UNCHANGED <<sources, view, idx, processed, ranking, comparison, now, runs,
                   session_state>>

\* Tab 1: one river's daily mean against the selected line
Tab1 ==
    /\ pc = "tab1"
    /\ \/ /\ all_rivers = <<>>
          /\ view' = NoView(1, "none")
       \/ \E selected_river \in Tab1Rivers :
            view' = SingleView(1, {selected_river},
                               GroupMean(OfRivers(df_water, {selected_river})), "warning")
    /\ pc' = AfterView(view', "tab2")
    /\ UNCHANGED <<sources, request, errors, idx, processed, ranking, comparison, session>>

\* Tab 2: the summed level of the rivers the multiselect holds against the selected
\* line, in a run in which no preset button is pressed
Tab2 ==
    /\ pc = "tab2"
    /\ \E selected_rivers \in Tab2Rivers :
        view' = IF selected_rivers = {} THEN NoView(2, "info")
                ELSE SingleView(2, selected_rivers,
                                GroupSum(OfRivers(df_water, selected_rivers)), "warning")
    /\ pc' = AfterView(view', "tab3")
    /\ UNCHANGED <<sources, request, errors, idx, processed, ranking, comparison, session>>

\* the first run of a session, every widget at its default: the first line, the
\* whole range, the first river in Tab 1
FreshSession ==
    /\ runs = 1
    /\ selected_dc = DC_CONFIG[1]
    /\ <<start_date, end_date>> = <<1, MaxDay>>
    /\ view.step.entity \subseteq {all_rivers[i] : i \in {1} \cap DOMAIN all_rivers}

\* Tab 2 when a preset button is pressed, which is followed in a fresh session: the
\* multiselect is rendered with its default, the button writes the preset's rivers
\* to st.session_state['selected_rivers_tab2'] and st.rerun() ends the run and
\* starts the script again, the widgets keeping their values
Tab2Preset ==
    /\ pc = "tab2"
    /\ FreshSession
    /\ runs < MaxRuns
    /\ \E preset \in Presets :
        session_state' = [tab1_river |-> IF view.step.entity = {} THEN Unset
                                         ELSE <<CHOOSE r \in view.step.entity : TRUE>>,
                          tab2_rivers |-> <<DefaultRivers(5)>>,
                          selected_rivers_tab2 |-> <<PresetList(preset)>>]
    /\ runs' = runs + 1
    /\ view' = NoView(0, "none")
    /\ pc' = "start"
    /\ UNCHANGED <<sources, request, errors, idx, processed, ranking, comparison,
                   cache, now, contacts>>

\* Tab 3: the summed level of all rivers against the selected line; below the floor
\* the tab shows its header only
Tab3 ==
    /\ pc = "tab3"
    /\ view' = SingleView(3, Range(all_rivers), GroupSum(df_water), "none")
    /\ pc' = AfterView(view', "tab4")
    /\ idx' = 0
    /\ processed' = <<>>
    /\ correlation_results' = <<>>
    /\ UNCHANGED <<sources, request, errors, df_results, csv, comparison, session>>

\* the row the ranking loop records for a river with a result
RankingRow(step) ==
    [name |-> step.entity, n |-> step.stats[1].n,
     Pearson_r |-> step.stats[1].pearson_r, r2 |-> step.stats[1].r2,
     slope |-> step.stats[1].slope,
     first |-> step.merged[1].date, last |-> step.merged[Len(step.merged)].date]

\* the row the comparison loop records for a line with a result
ComparisonRow(step) ==
    [name |-> step.entity, n |-> step.stats[1].n,
     Pearson_r |-> step.stats[1].pearson_r, r2 |-> step.stats[1].r2]

\* if len(df_merged) >= 10: stats = ...; if stats: results.append(row)
HasResult(step) == step.called /\ step.stats # None

\* a loop that gives up at the first entity without a result
AdvanceOrAbort(i, total, step) ==
    IF step.called /\ step.stats # None THEN i + 1 ELSE total

\* for ... in enumerate(...): the loop goes on to the next entity whatever the pass gave
Advance(i, total, step) == i + 1

\* Tab 4, one pass of the ranking loop: the river's daily mean against the selected
\* line, and a row of the table when there is a result
Tab4Step ==
    /\ pc = "tab4"
    /\ idx < Len(all_rivers)
    /\ LET river == all_rivers[idx + 1]
           step  == AlignStep(river, df_power_filtered,
                              GroupMean(OfRivers(df_water, {river})))
       IN  /\ processed' = Append(processed, step)
           /\ correlation_results' =
                IF HasResult(processed'[idx + 1])
                THEN Append(correlation_results, RankingRow(processed'[idx + 1]))
                ELSE correlation_results
    /\ idx' = Advance(idx, Len(all_rivers), processed'[idx + 1])
    /\ UNCHANGED <<sources, request, errors, pc, view, df_results, csv, comparison,
                   session>>

\* Tab 4 after the loop: the table sorted by |r| and ranked, with its text for the
\* download button, or the warning
Tab4Finish ==
    /\ pc = "tab4"
    /\ idx = Len(all_rivers)
    /\ df_results' = IF correlation_results # <<>>
                     THEN WithRank(SortByAbsDesc(correlation_results)) ELSE <<>>
    /\ csv' = IF correlation_results # <<>> THEN to_csv(df_results') ELSE <<>>
    /\ view' = NoView(4, IF correlation_results # <<>> THEN "table" ELSE "warning")
    /\ pc' = "tab5"
    /\ UNCHANGED <<sources, request, errors, idx, processed, correlation_results,
                   comparison, session>>

\* a load loop that keeps a line whose load failed, with no rows
LoadAllKeepFailed(dcs) ==
    [i \in DOMAIN dcs |->
        [dc |-> dcs[i],
         df |-> IF load_power_data(dcs[i]) = None THEN <<>> ELSE load_power_data(dcs[i])[1]]]

\* the lines of compare_dcs that load, with their frames, in order
RECURSIVE LoadAll(_)
LoadAll(dcs) ==
    IF dcs = <<>> THEN <<>>
    ELSE LET df == load_power_data(Head(dcs))
         IN  (IF df # None THEN << [dc |-> Head(dcs), df |-> df[1]] >> ELSE <<>>)
             \o LoadAll(Tail(dcs))

\* the selections the comparison tab is tried with: the two multiselects of lines
\* and of rivers (keys "compare_dcs" and "compare_rivers"), which no earlier run of
\* the session has rendered and which hold their defaults in a run after the first
CompareRivers ==
    IF runs = 1
    THEN {Range(all_rivers), {}} \cup {{all_rivers[i]} : i \in {1} \cap DOMAIN all_rivers}
    ELSE {DefaultRivers(10)}

CompareLines == IF runs = 1 THEN SUBSET DCNames ELSE {DCNames}

\* Tab 5 up to the comparison loop: the two selections, the load loop, the summed level
Tab5Select ==
    /\ pc = "tab5"
    /\ \E dcs \in CompareLines, rivers \in CompareRivers :
        /\ compare_dcs' = SelectSeq(DC_CONFIG, LAMBDA dc : dc \in dcs)
        /\ compare_rivers' = rivers
        /\ IF dcs # {} /\ rivers # {}
           THEN /\ all_power_data' = LoadAll(compare_dcs')
                /\ errors' = errors \cup {dc \in dcs : load_power_data(dc) = None}
                /\ cache' = Stored(dcs)
                /\ contacts' = Contacted(dcs)
                /\ df_water_sum' = GroupSum(OfRivers(df_water, rivers))
                /\ view' = view
                /\ pc' = "tab5loop"
           ELSE /\ all_power_data' = <<>>
                /\ errors' = errors
                /\ UNCHANGED <<cache, contacts>>
                /\ df_water_sum' = <<>>
                /\ view' = NoView(5, "info")
                /\ pc' = "done"
    /\ idx' = 0
    /\ processed' = <<>>
    /\ comparison_results' = <<>>
    /\ df_comparison' = <<>>
    /\ UNCHANGED <<sources, request, ranking, now, runs, session_state>>

\* Tab 5, one pass of the comparison loop: a loaded line, filtered to the date
\* range, against the summed level
Tab5Step ==
    /\ pc = "tab5loop"
    /\ idx < Len(all_power_data)
    /\ LET dc_name == all_power_data[idx + 1].dc
           step == AlignStep(dc_name,
                             FilterPower(all_power_data[idx + 1].df, start_date, end_date),
                             df_water_sum)
       IN  /\ processed' = Append(processed, step)
           /\ comparison_results' =
                IF HasResult(processed'[idx + 1])
                THEN Append(comparison_results, ComparisonRow(processed'[idx + 1]))
                ELSE comparison_results
    /\ idx' = Advance(idx, Len(all_power_data), processed'[idx + 1])
    /\ UNCHANGED <<sources, request, errors, pc, view, ranking, compare_dcs,
                   compare_rivers, all_power_data, df_water_sum, df_comparison, session>>

\* Tab 5 after the loop: the table sorted by |r| (then the charts), or the warning
Tab5Finish ==
    /\ pc = "tab5loop"
    /\ idx = Len(all_power_data)
    /\ df_comparison' = SortByAbsDesc(comparison_results)
    /\ view' = NoView(5, IF comparison_results # <<>> THEN "table" ELSE "warning")
    /\ pc' = "done"
    /\ UNCHANGED <<sources, request, errors, idx, processed, ranking, compare_dcs,
                   compare_rivers, all_power_data, df_water_sum, comparison_results,
                   session>>

\* time passes after a run that ended on a failed load
Tick ==
    /\ pc = "failed"
    /\ runs < MaxRuns
    /\ now < MaxTime
    /\ now' = now + TickSeconds
    /\ UNCHANGED <<sources, request, errors, pc, view, idx, processed, ranking,
                   comparison, cache, contacts, runs, session_state>>

\* a source that could not be read comes back
Recover ==
    /\ pc = "failed"
    /\ runs < MaxRuns
    /\ \/ /\ ~dbUp
          /\ dbUp' = TRUE
          /\ fileUp' = fileUp
       \/ \E dc \in DCNames \ fileUp :
          /\ fileUp' = fileUp \cup {dc}
          /\ dbUp' = dbUp
    /\ UNCHANGED <<riverTable, powerFile, request, errors, pc, view, idx, processed,
                   ranking, comparison, session>>

\* the user runs the script again after a failed load, the sidebar unchanged
Retry ==
    /\ pc = "failed"
    /\ runs < MaxRuns
    /\ runs' = runs + 1
    /\ pc' = "start"
    /\ UNCHANGED <<sources, request, errors, view, idx, processed, ranking, comparison,
                   cache, now, contacts, session_state>>

\* the steps of a script run
RunStep ==
    \/ Load
    \/ Tab1
    \/ Tab2
    \/ Tab2Preset
    \/ Tab3
    \/ Tab4Step
    \/ Tab4Finish
    \/ Tab5Select
    \/ Tab5Step
    \/ Tab5Finish

Next ==
    \/ Load
    \/ Tab1
    \/ Tab2
    \/ Tab2Preset
    \/ Tab3
    \/ Tab4Step
    \/ Tab4Finish
    \/ Tab5Select
    \/ Tab5Step
    \/ Tab5Finish
    \/ Tick
    \/ Recover
    \/ Retry

Spec == Init /\ [][Next]_vars

----------------------------------------------------------------------------
(* What the claims speak of *)

Dates(df) == {df[i].date : i \in DOMAIN df}

Names(rows) == {rows[i].name : i \in DOMAIN rows}

\* every align-and-correlate step the state holds
AllSteps == {view.step} \cup Range(processed)

\* the batch loop `processed` belongs to: the ranking, then the comparison
InRanking == pc \in {"tab4", "tab5"}

InComparison == pc \in {"tab5loop", "done"}

\* the entities the running batch has put in its table
Recorded ==
    IF InRanking THEN Names(correlation_results) \cup Names(df_results)
    ELSE Names(comparison_results) \cup Names(df_comparison)

\* C1: the merge (inner join on date, then dropna) gives at most
\* min(len(series_a), len(series_b)) rows, and every date of the output is a date
\* of both inputs
C1_MergeWithinBoth ==
    \A st \in AllSteps :
        /\ Len(st.merged) <= Min2(Len(st.power), Len(st.daily))
        /\ Dates(st.merged) \subseteq Dates(st.power) \cap Dates(st.daily)

\* a merge that dropped dates of both sides and kept some
C1_Witness ==
    \E st \in AllSteps :
        /\ Len(st.merged) > 0
        /\ Len(st.merged) < Len(st.power)
        /\ Len(st.merged) < Len(st.daily)

\* C2: an aligned pair of fewer than 10 rows gets no result from
\* calculate_correlation, and no view shows or records statistics for it
C2_NoStatsBelowFloor ==
    /\ \A st \in AllSteps :
        Len(st.merged) < MinSamples =>
            /\ StatsOf(st.merged) = None
            /\ ~st.called
            /\ st.stats = None
    /\ Len(view.step.merged) < MinSamples => view.shown # "stats"
    /\ \A i \in DOMAIN processed :
        Len(processed[i].merged) < MinSamples => processed[i].entity \notin Recorded

\* a finished ranking with a row, in which a river with some aligned rows, but
\* fewer than 10, was passed over
C2_Witness ==
    /\ pc = "tab5"
    /\ df_results # <<>>
    /\ \E i \in DOMAIN processed :
        /\ Len(processed[i].merged) > 0
        /\ Len(processed[i].merged) < MinSamples

\* C3: the ranking table is sorted by descending |Pearson r| and its rank column
\* holds 1..k in row order, k being the number of rivers that cleared the floor
\* and produced a result
C3_RankingSortedAndRanked ==
    pc = "tab5" =>
        /\ Len(df_results) = Cardinality({i \in DOMAIN processed : HasResult(processed[i])})
        /\ \A i \in DOMAIN df_results : df_results[i].rank = i
        /\ \A i, j \in DOMAIN df_results :
            i < j => AbsGE(df_results[i].Pearson_r, df_results[j].Pearson_r)

\* the entities of the steps of a batch, in the order they were handled
Entities(steps) == [i \in DOMAIN steps |-> steps[i].entity]

\* the entities of the steps that gave a result, in the order they were handled
WithResult(steps) == Entities(SelectSeq(steps, HasResult))

\* the entities of the rows of a table, in row order
RowNames(rows) == [i \in DOMAIN rows |-> rows[i].name]

LoadedLines == [i \in DOMAIN all_power_data |-> all_power_data[i].dc]

Constant(x) == \A i, j \in DOMAIN x : x[i] = x[j]

\* C5: for an aligned pair of at least 10 rows whose water level is constant the
\* Engine returns no result, and the pair is no row of the ranking or comparison
C5_ConstantGivesNoResult ==
    /\ \A st \in AllSteps :
        (Len(st.merged) >= MinSamples /\ Constant(Column(st.merged, "water_level"))) =>
            /\ StatsOf(st.merged) = None
            /\ st.stats = None
    /\ \A i \in DOMAIN processed :
        ( /\ Len(processed[i].merged) >= MinSamples
          /\ Constant(Column(processed[i].merged, "water_level")) ) =>
            processed[i].entity \notin Recorded

\* C6: in the single-river, river-group and all-rivers views, when
\* calculate_correlation returns no result for a pair of at least 10 rows the
\* view ends without a fault
C6_AbsentResultIsTerminal ==
    (view.tab \in 1..3 /\ view.step.called /\ view.step.stats = None) =>
        /\ view.shown # "fault"
        /\ pc # "fault"

Failed(dc) == load_power_data(dc) = None

\* the load loop of the comparison has run
CompareLoaded == InComparison /\ compare_dcs # <<>> /\ compare_rivers # {}

\* C7 as stated: when any source a request needs cannot be loaded (the water
\* levels, the selected line, or a line chosen for comparison), the request ends
\* in failure and produces no analysis result from the remaining sources
C7_AnyLoadFailureIsTerminal ==
    /\ (pc # "start" /\ (df_river = None \/ df_power = None)) => pc = "failed"
    /\ (CompareLoaded /\ \E i \in DOMAIN compare_dcs : Failed(compare_dcs[i])) =>
        /\ processed = <<>>
        /\ comparison_results = <<>>
        /\ df_comparison = <<>>

\* C7 as amended: a failed load of the water levels or of the selected line ends
\* the request: it is reported, no view is rendered and the run has no further
\* step.  A failed load of a line chosen for comparison is reported and that line
\* is left out; the comparison goes on with the lines that loaded, in order
C7_LoadFailure ==
    /\ pc # "start" => (pc = "failed" <=> (df_river = None \/ df_power = None))
    /\ pc = "failed" =>
        /\ "load" \in errors
        /\ df_river = None => "db" \in errors
        /\ df_power = None => selected_dc \in errors
        /\ view.tab = 0
        /\ processed = <<>>
        /\ df_results = <<>>
        /\ df_comparison = <<>>
        /\ ~ENABLED RunStep
    /\ CompareLoaded =>
        /\ LoadedLines = SelectSeq(compare_dcs, LAMBDA dc : ~Failed(dc))
        /\ \A i \in DOMAIN compare_dcs :
            Failed(compare_dcs[i]) =>
                /\ compare_dcs[i] \in errors
                /\ compare_dcs[i] \notin Recorded

\* a finished comparison with a row, one of whose chosen lines failed to load
C7_Witness ==
    /\ pc = "done"
    /\ CompareLoaded
    /\ \E i \in DOMAIN compare_dcs : Failed(compare_dcs[i])
    /\ df_comparison # <<>>

\* the rivers of a set that have a reading on date d, in name order
RiversOn(rows, rivers, d) ==
    SortedNames({r \in rivers : \E i \in DOMAIN rows :
                                    rows[i].river_name = r /\ rows[i].date = d})

\* the sum over the rivers of each river's own daily value (its daily mean)
SumOfRiverDailies(rows, rivers, d) ==
    LET on == RiversOn(rows, rivers, d)
    IN  FloatSum([k \in DOMAIN on |-> AggMean(WaterVals(OfRivers(rows, {on[k]}), d))])

\* C8: in a multi-river view (river group, all rivers, comparison) the combined
\* value of a date is the sum over the selected rivers of each river's own daily
\* value, whatever the number of readings a river has that day
C8_CombinedIsSumOfRiverDailies ==
    /\ view.tab \in {2, 3} =>
        \A i \in DOMAIN view.step.daily :
            view.step.daily[i].water_level =
                SumOfRiverDailies(df_water, view.step.entity, view.step.daily[i].date)
    /\ CompareLoaded =>
        \A i \in DOMAIN df_water_sum :
            df_water_sum[i].water_level =
                SumOfRiverDailies(df_water, compare_rivers, df_water_sum[i].date)

Reading(r) == [time |-> r.time, river_name |-> r.river_name, water_level |-> r.water_level]

\* C9: the date range is inclusive at both ends for both sources: every valid
\* water-level reading and every daily power row whose calendar date d has
\* start_date <= d <= end_date is used, whatever its time of day, and nothing else
C9_RangeInclusive ==
    pc \notin {"start", "failed"} =>
        /\ {Reading(df_water[i]) : i \in DOMAIN df_water} =
             {r \in Range(df_river[1]) : /\ r.water_level # NaN
                                         /\ start_date <= r.time[1]
                                         /\ r.time[1] <= end_date}
        /\ Range(df_power_filtered) =
             {r \in Range(df_power[1]) : start_date <= r.date /\ r.date <= end_date}

Disjoint(st) == Dates(st.power) \cap Dates(st.daily) = {}

\* C10: when the two sources share no date within the range, the aligned pair is
\* empty and every view ends without statistics and without a fault: the single
\* views show a warning or nothing, the ranking and the comparison their warning
C10_NoOverlapNoResult ==
    /\ \A st \in AllSteps :
        Disjoint(st) => (Len(st.merged) = 0 /\ ~st.called /\ st.stats = None)
    /\ (pc \notin {"start", "failed"} /\ Dates(df_water) \cap Dates(df_power_filtered) = {}) =>
        /\ pc # "fault"
        /\ view.tab \in 1..3 => view.shown \in {"warning", "none", "info"}
        /\ correlation_results = <<>>
        /\ df_results = <<>>
        /\ view.tab = 4 => view.shown = "warning"
    /\ (pc = "done" /\ CompareLoaded /\ \A st \in Range(processed) : Disjoint(st)) =>
        /\ view.shown = "warning"
        /\ df_comparison = <<>>

\* a finished run in which both sources have rows in the range, on no common
\* date, and the comparison was made
C10_Witness ==
    /\ pc = "done"
    /\ df_water # <<>>
    /\ df_power_filtered # <<>>
    /\ Dates(df_water) \cap Dates(df_power_filtered) = {}
    /\ processed # <<>>
    /\ \A st \in Range(processed) : Disjoint(st) /\ st.power # <<>>

\* the frames of daily power the state holds, each with the line it belongs to
PowerFrames ==
    (IF df_power = None THEN {} ELSE {[dc |-> selected_dc, df |-> df_power[1]]})
    \cup Range(all_power_data)

\* the single-river daily series the state holds, each with its river
RiverDailies ==
    (IF view.tab = 1 /\ view.step.entity # {}
     THEN {[river |-> CHOOSE r \in view.step.entity : TRUE, daily |-> view.step.daily]}
     ELSE {})
    \cup (IF InRanking
          THEN {[river |-> processed[i].entity, daily |-> processed[i].daily] :
                    i \in DOMAIN processed}
          ELSE {})

\* the daily series of a river set the state holds
SetDailies ==
    (IF view.tab \in {2, 3} THEN {view.step.daily} ELSE {}) \cup {df_water_sum}

OnePerDate(df) == \A i, j \in DOMAIN df : df[i].date = df[j].date => i = j

\* the values the spreadsheet of a line holds for day d
SourcePower(dc, d) ==
    {r \in Range(powerFile[dc]) : r.datetime[1] = d}

\* the readings of a river on day d among the rows handed to the aggregator
SourceWater(river, d) ==
    {r \in Range(df_water) : r.river_name = river /\ r.date = d}

RECURSIVE SumOver(_, _)
\* the float sum of field f over a set of rows, a missing value counting nothing
SumOver(rows, f) ==
    IF rows = {} THEN 0
    ELSE LET r == CHOOSE x \in rows : TRUE
             rest == SumOver(rows \ {r}, f)
         IN  IF r[f] = Inf \/ rest = Inf THEN Inf
             ELSE IF r[f] = NaN THEN rest ELSE r[f] + rest

\* the float mean of the water levels of a non-empty set of readings
MeanOver(rows) ==
    IF SumOver(rows, "water_level") = Inf THEN Inf
    ELSE SumOver(rows, "water_level") \div Cardinality(rows)

\* C11: every daily series (daily power of a line, daily mean level of a river,
\* daily summed level of a river set) has at most one row per calendar date, and
\* the value of a row is the reduction (sum for power, mean for the level of one
\* river) over all same-day rows of that entity's source
C11_OneRowPerDateReduced ==
    /\ \A p \in PowerFrames :
        /\ OnePerDate(p.df)
        /\ \A i \in DOMAIN p.df :
            p.df[i].power_sum = SumOver(SourcePower(p.dc, p.df[i].date), "power_actual")
    /\ \A w \in RiverDailies :
        /\ OnePerDate(w.daily)
        /\ \A i \in DOMAIN w.daily :
            w.daily[i].water_level = MeanOver(SourceWater(w.river, w.daily[i].date))
    /\ \A df \in SetDailies : OnePerDate(df)

\* the single-river view of a river with two readings on some day, against a line
\* with two readings on some day
C11_Witness ==
    /\ view.tab = 1
    /\ \E w \in RiverDailies : \E i \in DOMAIN w.daily :
        Cardinality(SourceWater(w.river, w.daily[i].date)) = 2
    /\ \E i \in DOMAIN df_power[1] :
        Cardinality(SourcePower(selected_dc, df_power[1][i].date)) = 2

\* some reading of the line on day d has a valid value
HasValidPower(dc, d) == \E r \in SourcePower(dc, d) : r.power_actual # NaN

\* C12: rows with a missing value are left out before the daily reduction, for
\* water level and for power: a date is in a daily series only if some same-day
\* reading has a valid value, so a day whose power readings are all missing gives
\* no daily power row (and no aligned row), not a row of value 0
C12_NoRowWithoutValidReading ==
    /\ \A p \in PowerFrames : \A i \in DOMAIN p.df : HasValidPower(p.dc, p.df[i].date)
    /\ \A w \in RiverDailies : \A i \in DOMAIN w.daily :
        \E r \in SourceWater(w.river, w.daily[i].date) : r.water_level # NaN
    /\ \A i \in DOMAIN view.step.merged :
        HasValidPower(selected_dc, view.step.merged[i].date)
    /\ \A k \in DOMAIN processed : \A i \in DOMAIN processed[k].merged :
        HasValidPower(IF InComparison THEN processed[k].entity ELSE selected_dc,
                      processed[k].merged[i].date)

\* C13: the aligned pair sequence the merge gives is sorted by date, strictly
\* ascending, whatever the order of the rows of the two sources
C13_MergedAscending ==
    \A st \in AllSteps :
        \A i, j \in DOMAIN st.merged : i < j => st.merged[i].date < st.merged[j].date

\* an aligned pair that cleared the floor, made from a spreadsheet whose rows are
\* listed newest day first
C13_Witness ==
    /\ pc \notin {"start", "failed"}
    /\ Len(powerFile[selected_dc]) > 1
    /\ powerFile[selected_dc][1].datetime[1] > powerFile[selected_dc][2].datetime[1]
    /\ Len(view.step.merged) >= MinSamples
    /\ view.step.power = df_power_filtered

\* the identifiers, counts and coefficients the ranked table holds, row by row
TableValues(rows) ==
    [i \in DOMAIN rows |->
        [rank |-> rows[i].rank, name |-> NameText[rows[i].name], n |-> rows[i].n,
         Pearson_r |-> FloatOfCoef(rows[i].Pearson_r),
         r2 |-> FloatOfQuotient(rows[i].r2.num, rows[i].r2.den),
         slope |-> FloatOfQuotient(rows[i].slope.num, rows[i].slope.den)]]

C15_PresetSelectsRivers ==
    (session_state.selected_rivers_tab2 # Unset /\ view.tab = 2) =>
        view.step.entity = Range(session_state.selected_rivers_tab2[1])

\* the keys a step calls the cached loaders for
Requested ==
    IF pc = "start" /\ pc' # "start" THEN {"river", selected_dc'}
    ELSE IF pc = "tab5" /\ pc' = "tab5loop" THEN Range(compare_dcs')
    ELSE {}

\* the call of the step for the key returned None
GotNone(k) ==
    IF pc = "start"
    THEN (IF k = "river" THEN df_river' = None ELSE df_power' = None)
    ELSE \A i \in DOMAIN all_power_data' : all_power_data'[i].dc # k

\* the entry of the key is that of a failed load
HoldsNone(c, k) == c[k] # <<>> /\ c[k][1].value = None

\* C16: a failed load is cached like a successful one.  A call that contacts the
\* source and fails leaves an entry for None; while that entry is younger than
\* 3600 s every call for the key returns None and leaves the source alone, also
\* when the source has recovered; once it has expired the call contacts the source
\* again and stores what it returns
C16_FailedLoadIsCached ==
    [][ \A k \in Requested :
          /\ (contacts'[k] # contacts[k] /\ GotNone(k)) =>
                (HoldsNone(cache', k) /\ cache'[k][1].stored = now)
          /\ HoldsNone(cache, k) =>
                IF now < cache[k][1].stored + 3600
                THEN /\ GotNone(k)
                     /\ contacts'[k] = contacts[k]
                     /\ cache'[k] = cache[k]
                ELSE /\ contacts'[k] = contacts[k] + 1
                     /\ cache'[k] = <<[value |-> Body(k), stored |-> now]>>
                     /\ GotNone(k) <=> Body(k) = None
      ]_vars

\* a second run within the lifetime, after the database and the selected line's
\* file have both come back: both loads return None and neither source has been
\* contacted a second time
C16_Witness ==
    /\ runs = 2
    /\ pc = "failed"
    /\ 0 < now
    /\ now < TTL
    /\ dbUp
    /\ selected_dc \in fileUp
    /\ df_river = None
    /\ df_power = None
    /\ contacts["river"] = 1
    /\ contacts[selected_dc] = 1

====
